---- MODULE Spec2Model ----
(***************************************************************************)
(* State-machine model of the Kalshi trading interface:                    *)
(*   src/server.py            the cache `state`, the two polling loops,    *)
(*                            the status / buy / sell / cancel handlers    *)
(*   src/kalshi_positions.py  fee model, quote table, position valuation   *)
(*                                                                         *)
(* Scheduling.  poll_markets, poll_resting_orders, api_buy and api_sell    *)
(* are coroutines of one asyncio event loop: between two `await`s a        *)
(* coroutine runs without any other coroutine running (variable `loop`     *)
(* names the coroutine that holds the event loop).  api_status and         *)
(* api_cancel_order are plain `def` handlers; the framework runs them on   *)
(* worker threads, so their steps interleave freely with the event loop's. *)
(*                                                                         *)
(* Units.  Raw prices are whole cents c (the float c/100 of the code).     *)
(* Fees, effective prices and dollar amounts are micro-dollars (1e-6 $):   *)
(* 0.07 * (c/100) * (1 - c/100) = 7*c*(100-c) micro-dollars exactly.       *)
(***************************************************************************)
EXTENDS Integers, Sequences, FiniteSets, TLC

VARIABLES
    state,      \* the module-level dict `state` of server.py
    writer,     \* ghost: number of the poll_markets cycle that last wrote each key
    cycle,      \* ghost: number of poll_markets cycles started
    rcycle,     \* ghost: number of poll_resting_orders cycles run
    loop,       \* which coroutine holds the event loop ("idle" when none)
    pm,         \* poll_markets: position, locals, pre-cycle copy of the cache
    ord,        \* the buy/sell request in flight: position, parameters, locals
    cxl,        \* the cancel request in flight (worker thread)
    stq,        \* the status request in flight (worker thread)
    sent,       \* ghost: order submissions (POST) issued, with the request number
                \*   and the cache entry the price was taken from
    deleted,    \* ghost: cancellations (DELETE) issued, with the request number
                \*   and the order status the handler had observed
    nextId,     \* ghost: stands for uuid4(): a fresh id per log entry
    nOrders,    \* number of buy/sell requests received so far
    nCancels,   \* number of cancel requests received so far
    nStatus,    \* number of status requests received so far
    po,         \* poll_resting_orders: whether its last cycle failed
    inp,        \* the exchange's answers given to the table-building
                \*   specification (unused by the others)
    am          \* add_message step by step: the list objects, the one
                \*   state["messages"] refers to, each caller's call in flight
                \*   (used by the specification of overlapping appends)

vars == <<state, writer, cycle, rcycle, loop, pm, ord, cxl, stq, sent, deleted,
          nextId, nOrders, nCancels, nStatus, po, inp, am>>

----------------------------------------------------------------------------
(* Bounds of the model *)

MaxCycles == 2
MaxRestingCycles == 2
MaxOrders == 1
MaxCancels == 1
MaxStatus == 1

(* Program constants *)

LogCap == 100
CentsPerDollar == 100
NaN == -999999999
Inf == 999999999

----------------------------------------------------------------------------
(* Python values *)

None == [kind |-> "None"]
Absent == [kind |-> "absent"]
List(rows) == [kind |-> "list", rows |-> rows]
Truthy(v) == v.kind = "list" /\ Len(v.rows) > 0

Abs(n) == IF n < 0 THEN -n ELSE n

\* n / d rounded to the nearest integer for n >= 0, d > 0, ties to even
\* (Python round, pandas .round)
RoundDiv(n, d) ==
    LET q == n \div d
        r == n % d
    IN  IF 2 * r < d THEN q
        ELSE IF 2 * r > d THEN q + 1
        ELSE IF q % 2 = 0 THEN q ELSE q + 1

RoundTo(x, unit) == RoundDiv(x, unit) * unit

\* math.ceil / math.floor of an exact amount of micro-dollars, in cents
CeilCents(micro) == (micro + 9999) \div 10000
FloorCents(micro) == micro \div 10000

\* math.ceil(p * 100) and math.floor(p * 100) for the IEEE double p = c/100:
\* the double product differs from c for these cents (0.07 * 100 is
\* 7.000000000000001, 0.29 * 100 is 28.999999999999996).
FloatCeilTimes100(c) == IF c \in {7, 14, 28, 55, 56} THEN c + 1 ELSE c
FloatFloorTimes100(c) == IF c \in {29, 57, 58} THEN c - 1 ELSE c

----------------------------------------------------------------------------
(* Fee model and quote table: kalshi_positions.py *)

kalshi_fee_WrongRate(c) == 70 * c * (100 - c)

kalshi_fee_Squared(c) == (7 * c * (10000 - c * c)) \div 100

\* 0.07 * p * (1 - p) for p = c/100, as an exact amount of micro-dollars
kalshi_fee(c) == 7 * c * (100 - c)

\* The double that `0.07 * p * (1 - p)` evaluates to for the double p = c/100
\* lies this many units in the last place above the double nearest to the
\* exact amount (two roundings of the products, after those of 0.07 and p);
\* 0 for the cents not listed.
FeeUlps(c) ==
    IF c \in {93} THEN -4
    ELSE IF c \in {91, 92} THEN -2
    ELSE IF c \in {31, 81} THEN -1
    ELSE IF c \in {1, 2, 4, 5, 8, 10, 12, 14, 16, 17, 18, 19, 20, 21, 22, 24, 25,
                   27, 28, 34, 40, 41, 42, 43, 44, 46, 57, 58, 59, 60, 64, 71,
                   72, 73, 74, 75, 85, 86, 88} THEN 1
    ELSE IF c \in {11, 23, 45, 69, 70, 82, 83, 84} THEN 2
    ELSE IF c \in {94, 97} THEN 4
    ELSE IF c \in {99} THEN 5
    ELSE IF c \in {96, 98} THEN 7
    ELSE IF c \in {95} THEN 8
    ELSE 0

\* The double kalshi_fee returns: the double nearest to `micro` micro-dollars,
\* moved by `ulps` units in the last place
kalshi_fee_double(c) == [micro |-> kalshi_fee(c), ulps |-> FeeUlps(c)]

RawMarket(t, st, yb, ya, nb, na) ==
    [ticker |-> t, status |-> st, yes_bid |-> yb, yes_ask |-> ya,
     no_bid |-> nb, no_ask |-> na, last_price |-> yb, yes_sub_title |-> t]

SummaryRow_FeeSignsSwapped(m) ==
    [market_ticker |-> m.ticker,
     team |-> m.yes_sub_title,
     yes_bid |-> m.yes_bid,
     yes_ask |-> m.yes_ask,
     no_bid |-> m.no_bid,
     no_ask |-> m.no_ask,
     last_price |-> m.last_price,
     yes_bid_effective |-> 10000 * m.yes_bid + kalshi_fee(m.yes_bid),
     yes_ask_effective |-> 10000 * m.yes_ask - kalshi_fee(m.yes_ask),
     no_bid_effective |-> 10000 * m.no_bid + kalshi_fee(m.no_bid),
     no_ask_effective |-> 10000 * m.no_ask - kalshi_fee(m.no_ask),
     fee_yes_bid |-> kalshi_fee(m.yes_bid),
     fee_yes_ask |-> kalshi_fee(m.yes_ask),
     fee_no_bid |-> kalshi_fee(m.no_bid),
     fee_no_ask |-> kalshi_fee(m.no_ask)]

SummaryRow(m) ==
    [market_ticker |-> m.ticker,
     team |-> m.yes_sub_title,
     yes_bid |-> m.yes_bid,
     yes_ask |-> m.yes_ask,
     no_bid |-> m.no_bid,
     no_ask |-> m.no_ask,
     last_price |-> m.last_price,
     yes_bid_effective |-> 10000 * m.yes_bid - kalshi_fee(m.yes_bid),
     yes_ask_effective |-> 10000 * m.yes_ask + kalshi_fee(m.yes_ask),
     no_bid_effective |-> 10000 * m.no_bid - kalshi_fee(m.no_bid),
     no_ask_effective |-> 10000 * m.no_ask + kalshi_fee(m.no_ask),
     fee_yes_bid |-> kalshi_fee(m.yes_bid),
     fee_yes_ask |-> kalshi_fee(m.yes_ask),
     fee_no_bid |-> kalshi_fee(m.no_bid),
     fee_no_ask |-> kalshi_fee(m.no_ask)]

RECURSIVE ActiveRows(_)
ActiveRows(ms) ==
    IF ms = <<>> THEN <<>>
    ELSE IF Head(ms).status = "active"
         THEN <<SummaryRow(Head(ms))>> \o ActiveRows(Tail(ms))
         ELSE ActiveRows(Tail(ms))

\* A DataFrame: pd.DataFrame([]) has no columns at all.
DataFrame(rows, hasColumns) == [rows |-> rows, columns |-> hasColumns]

get_market_summary_Unfiltered(listing) ==
    DataFrame([i \in 1..Len(listing) |-> SummaryRow(listing[i])], listing # <<>>)

\* The listing is the body of the exchange's answer to GET /markets.
get_market_summary(listing) ==
    LET summary == ActiveRows(listing)
    IN  DataFrame(summary, summary # <<>>)

----------------------------------------------------------------------------
(* Position valuation: kalshi_positions.py *)

RawPosition(t, pos, exposure, fees, pnl) ==
    [ticker |-> t, position |-> pos, market_exposure_dollars |-> exposure,
     fees_paid_dollars |-> fees, realized_pnl_dollars |-> pnl]

\* market_exposure_dollars / position.abs(), then .round(4): a float division,
\* so x/0 is inf and 0/0 is NaN, and neither is changed by the rounding.
avg_share_price(p) ==
    IF p.position = 0
    THEN IF p.market_exposure_dollars = 0 THEN NaN ELSE Inf
    ELSE RoundDiv(p.market_exposure_dollars, Abs(p.position) * 100) * 100

\* pd.merge(..., how="left"): the quote row of the position's ticker, if any
RECURSIVE FindRow(_, _)
FindRow(rows, t) ==
    IF rows = <<>> THEN None
    ELSE IF Head(rows).market_ticker = t THEN Head(rows)
    ELSE FindRow(Tail(rows), t)

compute_liquidation_SidesSwapped(p, q) ==
    LET pos == p.position
    IN  IF pos = 0 THEN 0
        ELSE IF q = None THEN NaN
        ELSE IF pos > 0 THEN RoundTo(pos * q.no_bid_effective, 10000)
        ELSE RoundTo(Abs(pos) * q.yes_bid_effective, 10000)

compute_liquidation(p, q) ==
    LET pos == p.position
    IN  IF pos = 0 THEN 0
        ELSE IF q = None THEN NaN
        ELSE IF pos > 0 THEN RoundTo(pos * q.yes_bid_effective, 10000)
        ELSE RoundTo(Abs(pos) * q.no_bid_effective, 10000)

PositionRow(p, df_markets) ==
    [ticker |-> p.ticker,
     net_yes_position |-> p.position,
     avg_share_price |-> avg_share_price(p),
     fees_paid_dollars |-> p.fees_paid_dollars,
     realized_pnl_dollars |-> p.realized_pnl_dollars,
     market_exposure_dollars |-> p.market_exposure_dollars,
     liquidation_value |-> compute_liquidation(p, FindRow(df_markets.rows, p.ticker))]

\* Result of compute_positions: [ok |-> FALSE] when selecting the quote
\* columns of a DataFrame without columns raises KeyError.
compute_positions(ledger, df_markets) ==
    IF ledger = <<>>
    THEN [ok |-> TRUE, df |-> DataFrame(<<>>, TRUE)]
    ELSE IF ~df_markets.columns
    THEN [ok |-> FALSE, df |-> DataFrame(<<>>, FALSE)]
    ELSE [ok |-> TRUE,
          df |-> DataFrame([i \in 1..Len(ledger) |-> PositionRow(ledger[i], df_markets)],
                           TRUE)]

----------------------------------------------------------------------------
(* server.py: helpers *)

Clean(v) == IF v = NaN \/ v = Inf \/ v = -Inf THEN 0 ELSE v

\* df.replace([inf, -inf, None], nan).fillna(0), then a list of records
sanitize_json(df) ==
    List([i \in 1..Len(df.rows) |->
            [k \in DOMAIN df.rows[i] |->
                IF k \in {"ticker", "market_ticker", "team"}
                THEN df.rows[i][k] ELSE Clean(df.rows[i][k])]])

\* One event-log entry.  `error` is the exception or exchange error text the
\* message text embeds ("" when none); the timestamp is not modelled.
Entry(id, type_, text, error) ==
    [id |-> id, type |-> type_, text |-> text, error |-> error]

Take(s, n) == IF Len(s) <= n THEN s ELSE SubSeq(s, 1, n)

add_message_KeepOneMore(messages, entry) == Take(<<entry>> \o messages, LogCap + 1)

\* insert(0, entry), then keep the first 100
add_message(messages, entry) == Take(<<entry>> \o messages, LogCap)

----------------------------------------------------------------------------
(* What the exchange may answer (the inputs of the model) *)

\* GET /trade-api/v2/markets: a transport error (raise_for_status), a
\* record lacking a field the summary reads, or a listing.
OneActiveMarket ==
    << RawMarket("KXA", "active", 58, 60, 40, 42),
       RawMarket("KXB", "closed", 0, 0, 0, 0) >>

MarketResponses ==
    { [kind |-> "error", markets |-> <<>>],
      [kind |-> "malformed", markets |-> <<>>],
      [kind |-> "ok", markets |-> <<>>],
      [kind |-> "ok", markets |-> OneActiveMarket] }

\* GET /trade-api/v2/portfolio/positions (ledgers with positions are the
\* inputs of the table-building specification below)
PositionResponses ==
    { [kind |-> "error", market_positions |-> <<>>],
      [kind |-> "ok", market_positions |-> <<>>] }

\* GET /trade-api/v2/portfolio/balance (balance in cents)
BalanceResponses ==
    { [kind |-> "error", balance |-> 0],
      [kind |-> "ok", balance |-> 5000] }

----------------------------------------------------------------------------
(* Initial state: server.py lines 21-27; no key "user_info" or             *)
(* "resting_orders" exists until a cycle stores one.                        *)

InitState ==
    [markets |-> None, positions |-> None, messages |-> <<>>,
     last_pull |-> None, balance |-> None,
     user_info |-> Absent, resting_orders |-> Absent]

\* The part of the cache a quotes+positions cycle is meant to replace
Snapshot(st) ==
    [markets |-> st.markets, positions |-> st.positions,
     last_pull |-> st.last_pull, user_info |-> st.user_info]

NoFrame == DataFrame(<<>>, FALSE)

InitPm == [pc |-> "sleep", df_markets |-> NoFrame, df_positions |-> NoFrame,
           pre |-> Snapshot(InitState), failed |-> FALSE]

NoResult == [raised |-> FALSE, has_order |-> FALSE, status |-> "",
             taker_fill |-> FALSE, has_error |-> FALSE, error |-> ""]

NoResponse == [code |-> 0, error |-> ""]

InitOrd ==
    [pc |-> "idle", req |-> 0, action |-> "buy", ticker |-> "", side |-> "",
     quantity |-> "", count |-> 0, markets |-> None, snap |-> 0,
     market_entry |-> None, price |-> 0, result |-> NoResult, log_id |-> 0,
     response |-> NoResponse]

InitCxl == [pc |-> "idle", req |-> 0, order_id |-> "", status |-> "",
            response |-> NoResponse]

\* lookup_failed: whether a per-order lookup of the last cycle raised
InitPo == [failed |-> FALSE, lookup_failed |-> FALSE]

NoFee == [micro |-> -1, ulps |-> 0]

\* The answers of one cycle's two fetches (lines 49-50); a price in cents
\* with the fees computed for it and for its complement
NoInput == [markets |-> [kind |-> "error", markets |-> <<>>],
            positions |-> [kind |-> "error", market_positions |-> <<>>],
            price |-> 0, fee |-> NoFee, fee_complement |-> NoFee]

\* The callers of add_message that may overlap: api_cancel_order runs on a
\* worker thread, the polling loops and the order handlers on the event loop
Callers == {"cancel", "loop"}

NoCall == [pc |-> "idle", ref |-> 0, entry |-> Entry(0, "", "", ""), sliced |-> <<>>]

\* List object 1 is the [] of line 24, which state["messages"] refers to
InitAm == [lists |-> << <<>> >>, cur |-> 1, calls |-> [t \in Callers |-> NoCall],
           made |-> [t \in Callers |-> 0]]

NoVersions == [markets |-> 0, positions |-> 0, last_pull |-> 0, user_info |-> 0]

InitStq == [pc |-> "idle", resp |-> Snapshot(InitState), messages |-> <<>>,
            ver |-> NoVersions]

InitWith(given) ==
    /\ state = InitState
    /\ writer = NoVersions
    /\ cycle = 0
    /\ rcycle = 0
    /\ loop = "idle"
    /\ pm = InitPm
    /\ ord = InitOrd
    /\ cxl = InitCxl
    /\ stq = InitStq
    /\ sent = <<>>
    /\ deleted = <<>>
    /\ nextId = 1
    /\ nOrders = 0
    /\ nCancels = 0
    /\ nStatus = 0
    /\ po = InitPo
    /\ inp = given
    /\ am = InitAm

Init == InitWith(NoInput)

Logged_Nothing(st, type_, text, error) == st

\* state after add_message(type_, text) whose text embeds `error`
Logged(st, type_, text, error) ==
    [st EXCEPT !.messages = add_message(@, Entry(nextId, type_, text, error))]

----------------------------------------------------------------------------
(* poll_markets: server.py lines 45-60 *)

LoopContinues_UntilFailure(failed) == ~failed

\* `while True` (lines 47 and 64): the loop goes on whatever the last cycle did
LoopContinues(failed) == TRUE

\* Lines 49-50 after the sleep, the exchange answering mr and then pr: both
\* fetches and the two tables.  A failure of either goes to the handler of
\* line 57 and the loop sleeps again (df_markets is assigned once line 49
\* has returned).
FetchAndBuild(mr, pr) ==
    /\ pm.pc = "sleep"
    /\ loop = "idle"
    /\ LoopContinues(pm.failed)
    /\ cycle < MaxCycles
    /\ cycle' = cycle + 1
    /\ LET df_markets == get_market_summary(mr.markets)
           cp == compute_positions(pr.market_positions, df_markets)
           pre == Snapshot(state)
       IN  IF mr.kind # "ok"
           THEN /\ state' = Logged(state, "ERROR", "Polling failed",
                                   IF mr.kind = "error" THEN "HTTPError"
                                   ELSE "KeyError")
                /\ nextId' = nextId + 1
                /\ pm' = [pm EXCEPT !.pre = pre, !.failed = TRUE]
                /\ loop' = "idle"
           ELSE IF pr.kind # "ok" \/ ~cp.ok
           THEN /\ state' = Logged(state, "ERROR", "Polling failed",
                                   IF pr.kind # "ok" THEN "HTTPError"
                                   ELSE "KeyError")
                /\ nextId' = nextId + 1
                /\ pm' = [pm EXCEPT !.df_markets = df_markets, !.pre = pre,
                                    !.failed = TRUE]
                /\ loop' = "idle"
           ELSE /\ pm' = [pc |-> "l52", df_markets |-> df_markets,
                          df_positions |-> cp.df, pre |-> pre, failed |-> FALSE]
                /\ loop' = "poll_markets"
                /\ UNCHANGED <<state, nextId>>
    /\ UNCHANGED <<writer, rcycle, ord, cxl, stq, sent, deleted,
                   nOrders, nCancels, nStatus, po, inp, am>>

\* Line 52: state["markets"] = sanitize_json(df_markets)
poll_markets_store_markets ==
    /\ pm.pc = "l52"
    /\ state' = [state EXCEPT !.markets = sanitize_json(pm.df_markets)]
    /\ writer' = [writer EXCEPT !.markets = cycle]
    /\ pm' = [pm EXCEPT !.pc = "l53"]
    /\ UNCHANGED <<cycle, rcycle, loop, ord, cxl, stq, sent, deleted, nextId,
                   nOrders, nCancels, nStatus, po, inp, am>>

\* Line 53: state["positions"] = sanitize_json(df_positions)
poll_markets_store_positions ==
    /\ pm.pc = "l53"
    /\ state' = [state EXCEPT !.positions = sanitize_json(pm.df_positions)]
    /\ writer' = [writer EXCEPT !.positions = cycle]
    /\ pm' = [pm EXCEPT !.pc = "l54"]
    /\ UNCHANGED <<cycle, rcycle, loop, ord, cxl, stq, sent, deleted, nextId,
                   nOrders, nCancels, nStatus, po, inp, am>>

\* Line 54: state["last_pull"] = utcnow().isoformat(); the clock reading of
\* cycle n is written n.
poll_markets_store_last_pull ==
    /\ pm.pc = "l54"
    /\ state' = [state EXCEPT !.last_pull = [kind |-> "str", t |-> cycle]]
    /\ writer' = [writer EXCEPT !.last_pull = cycle]
    /\ pm' = [pm EXCEPT !.pc = "l55"]
    /\ UNCHANGED <<cycle, rcycle, loop, ord, cxl, stq, sent, deleted, nextId,
                   nOrders, nCancels, nStatus, po, inp, am>>

\* Line 55: state["user_info"] = get_user_info(), or the handler of line 57
\* when the balance request fails; then the sleep of line 60.
poll_markets_store_user_info ==
    /\ pm.pc = "l55"
    /\ \E br \in BalanceResponses :
         IF br.kind = "ok"
         THEN /\ state' = [state EXCEPT
                             !.user_info = [kind |-> "dict", balance |-> br.balance]]
              /\ writer' = [writer EXCEPT !.user_info = cycle]
              /\ pm' = [pm EXCEPT !.pc = "sleep"]
              /\ UNCHANGED nextId
         ELSE /\ state' = Logged(state, "ERROR", "Polling failed", "HTTPError")
              /\ nextId' = nextId + 1
              /\ pm' = [pm EXCEPT !.pc = "sleep", !.failed = TRUE]
              /\ UNCHANGED writer
    /\ loop' = "idle"
    /\ UNCHANGED <<cycle, rcycle, ord, cxl, stq, sent, deleted,
                   nOrders, nCancels, nStatus, po, inp, am>>

poll_markets_fetch ==
    \E mr \in MarketResponses, pr \in PositionResponses : FetchAndBuild(mr, pr)

\* The same step when the exchange's answers are the given ones
poll_markets_fetch_given == FetchAndBuild(inp.markets, inp.positions)

----------------------------------------------------------------------------
(* api_status: server.py lines 80-88, on a worker thread.  The dict         *)
(* display reads the five keys one after the other.                         *)

api_status_begin ==
    /\ stq.pc \in {"idle", "done", "fault"}
    /\ nStatus < MaxStatus
    /\ nStatus' = nStatus + 1
    /\ stq' = [InitStq EXCEPT !.pc = "l83"]
    /\ UNCHANGED <<state, writer, cycle, rcycle, loop, pm, ord, cxl, sent,
                   deleted, nextId, nOrders, nCancels, po, inp, am>>

api_status_read_markets ==
    /\ stq.pc = "l83"
    /\ stq' = [stq EXCEPT !.pc = "l84", !.resp.markets = state.markets,
                          !.ver.markets = writer.markets]
    /\ UNCHANGED <<state, writer, cycle, rcycle, loop, pm, ord, cxl, sent,
                   deleted, nextId, nOrders, nCancels, nStatus, po, inp, am>>

api_status_read_positions ==
    /\ stq.pc = "l84"
    /\ stq' = [stq EXCEPT !.pc = "l85", !.resp.positions = state.positions,
                          !.ver.positions = writer.positions]
    /\ UNCHANGED <<state, writer, cycle, rcycle, loop, pm, ord, cxl, sent,
                   deleted, nextId, nOrders, nCancels, nStatus, po, inp, am>>

api_status_read_messages ==
    /\ stq.pc = "l85"
    /\ stq' = [stq EXCEPT !.pc = "l86", !.messages = state.messages]
    /\ UNCHANGED <<state, writer, cycle, rcycle, loop, pm, ord, cxl, sent,
                   deleted, nextId, nOrders, nCancels, nStatus, po, inp, am>>

api_status_read_last_pull ==
    /\ stq.pc = "l86"
    /\ stq' = [stq EXCEPT !.pc = "l87", !.resp.last_pull = state.last_pull,
                          !.ver.last_pull = writer.last_pull]
    /\ UNCHANGED <<state, writer, cycle, rcycle, loop, pm, ord, cxl, sent,
                   deleted, nextId, nOrders, nCancels, nStatus, po, inp, am>>

\* Line 87: state["user_info"] raises KeyError while the key does not exist.
api_status_read_user_info ==
    /\ stq.pc = "l87"
    /\ stq' = IF state.user_info = Absent
              THEN [stq EXCEPT !.pc = "fault"]
              ELSE [stq EXCEPT !.pc = "done", !.resp.user_info = state.user_info,
                               !.ver.user_info = writer.user_info]
    /\ UNCHANGED <<state, writer, cycle, rcycle, loop, pm, ord, cxl, sent,
                   deleted, nextId, nOrders, nCancels, nStatus, po, inp, am>>

----------------------------------------------------------------------------
(* api_buy and api_sell: server.py lines 91-172 and 176-255.  The two       *)
(* handlers differ in the price they derive and in their message texts.     *)

OrderActions == {"buy", "sell"}
OrderTickers == {"KXA", "KXC"}
\* "NULL" stands for a JSON null (or any non-string): it has no .lower()
RawSides == {"yes", "no", "NULL"}
RawQuantities == {"3", "abc"}

\* int(x): server.py lines 97 and 182
ParseInt(x) ==
    IF x = "3" THEN [ok |-> TRUE, n |-> 3] ELSE [ok |-> FALSE, n |-> 0]

\* What kalshi_post may return (resp.json()), or raise
PostResults ==
    { [NoResult EXCEPT !.raised = TRUE],
      [NoResult EXCEPT !.has_order = TRUE, !.status = "executed", !.taker_fill = TRUE],
      [NoResult EXCEPT !.has_order = TRUE, !.status = "executed"],
      [NoResult EXCEPT !.has_order = TRUE, !.status = "canceled"],
      [NoResult EXCEPT !.has_order = TRUE, !.status = "resting"],
      [NoResult EXCEPT !.has_error = TRUE, !.error = "insufficient_balance"],
      NoResult }

OrderAwaits_BeforePricing == {"l110"}

\* Points after the request body was read (`await request.json()`, lines 94
\* and 179) at which the handler awaits, giving up the event loop: none,
\* kalshi_post is a blocking call.
OrderAwaits == {}

OrderMayRun == IF ord.pc \in OrderAwaits THEN loop = "idle" ELSE loop = "order"

LoopAfter(pc) ==
    IF pc \in OrderAwaits \cup {"idle", "done", "fault"} THEN "idle" ELSE "order"

LookupEntry_FirstMarket(markets, ticker) ==
    IF Truthy(markets) THEN Head(markets.rows) ELSE None

\* Lines 102-108 / 187-193: next(m for m in markets if ...), None when the
\* cache is empty or has no such market
LookupEntry(markets, ticker) ==
    IF Truthy(markets) THEN FindRow(markets.rows, ticker) ELSE None

\* Lines 110-111 and 195-200: the limit price in cents
OrderPrice(action, side, market_entry) ==
    IF action = "buy"
    THEN FloatCeilTimes100(IF side = "yes" THEN market_entry.yes_ask
                           ELSE market_entry.no_ask)
    ELSE FloatFloorTimes100(IF side = "yes" THEN market_entry.yes_bid
                            ELSE market_entry.no_bid)

\* Lines 142-160 and 230-243.  result["order"] raises KeyError when the
\* non-empty result has no "order" key.
Classify(action, result) ==
    LET truthy == result.has_order \/ result.has_error
    IN  IF truthy /\ result.has_order /\ result.status = "executed"
        THEN [raised |-> FALSE,
              text |-> IF action = "sell" THEN "Executed"
                       ELSE IF result.taker_fill THEN "Executed TAKER"
                       ELSE "Executed MAKER",
              error |-> ""]
        ELSE IF truthy /\ ~result.has_order
        THEN [raised |-> TRUE, text |-> "", error |-> "'order'"]
        ELSE IF truthy /\ result.status = "canceled"
        THEN [raised |-> FALSE, text |-> "Failed to place", error |-> "Canceled"]
        ELSE [raised |-> FALSE, text |-> "Failed to place",
              error |-> IF ~truthy THEN "No response from API"
                        ELSE IF result.has_error THEN result.error
                        ELSE "Unknown error"]

\* The request and lines 94-97 / 179-182, once the body has arrived and the
\* event loop resumes the handler.  They come before the try: .lower() and
\* int() may raise, and nothing in the handler catches that.
api_order_parse ==
    /\ ord.pc \in {"idle", "done", "fault"}
    /\ loop = "idle"
    /\ nOrders < MaxOrders
    /\ nOrders' = nOrders + 1
    /\ \E a \in OrderActions, t \in OrderTickers, sd \in RawSides, q \in RawQuantities :
         LET n == ParseInt(q)
             pc2 == IF sd = "NULL" \/ ~n.ok THEN "fault" ELSE "l101"
         IN  /\ ord' = [InitOrd EXCEPT !.pc = pc2, !.req = nOrders + 1,
                                       !.action = a, !.ticker = t, !.side = sd,
                                       !.quantity = q, !.count = n.n]
             /\ loop' = LoopAfter(pc2)
    /\ UNCHANGED <<state, writer, cycle, rcycle, pm, cxl, stq, sent, deleted,
                   nextId, nCancels, nStatus, po, inp, am>>

\* Line 101 / 186: markets = state.get("markets")
api_order_read ==
    /\ ord.pc = "l101"
    /\ OrderMayRun
    /\ ord' = [ord EXCEPT !.pc = "l102", !.markets = state.markets,
                          !.snap = writer.markets]
    /\ loop' = LoopAfter("l102")
    /\ UNCHANGED <<state, writer, cycle, rcycle, pm, cxl, stq, sent, deleted,
                   nextId, nOrders, nCancels, nStatus, po, inp, am>>

\* Lines 102-108 / 187-193: the lookup in the list read at line 101; a
\* ValueError goes to the handler of line 170 / 253.
api_order_lookup ==
    /\ ord.pc = "l102"
    /\ OrderMayRun
    /\ LET entry == LookupEntry(ord.markets, ord.ticker)
           err == IF ~Truthy(ord.markets) THEN "No cached market data available yet."
                  ELSE "Market data not found in cache."
       IN  IF entry = None
           THEN /\ state' = Logged(state, "ERROR", "failed", err)
                /\ nextId' = nextId + 1
                /\ ord' = [ord EXCEPT !.pc = "done", !.log_id = nextId,
                                      !.response = [code |-> 500, error |-> err]]
                /\ loop' = LoopAfter("done")
           ELSE /\ ord' = [ord EXCEPT !.pc = "l110", !.market_entry = entry]
                /\ loop' = LoopAfter("l110")
                /\ UNCHANGED <<state, nextId>>
    /\ UNCHANGED <<writer, cycle, rcycle, pm, cxl, stq, sent, deleted,
                   nOrders, nCancels, nStatus, po, inp, am>>

\* Lines 110-123 / 195-209: the price and the INFO entry
api_order_price ==
    /\ ord.pc = "l110"
    /\ OrderMayRun
    /\ ord' = [ord EXCEPT !.pc = "l140",
                          !.price = OrderPrice(ord.action, ord.side, ord.market_entry)]
    /\ state' = Logged(state, "INFO", "REQUESTING", "")
    /\ nextId' = nextId + 1
    /\ loop' = LoopAfter("l140")
    /\ UNCHANGED <<writer, cycle, rcycle, pm, cxl, stq, sent, deleted,
                   nOrders, nCancels, nStatus, po, inp, am>>

AfterFailedPost_Retry == "l140"

\* Where the handler goes when kalshi_post raised: the handler of line 170 /
\* 253 returns the error response, the request is over
AfterFailedPost == "done"

\* Lines 126-140 / 212-227: the payload and the POST
api_order_post ==
    /\ ord.pc = "l140"
    /\ OrderMayRun
    /\ sent' = Append(sent, [req |-> ord.req, action |-> ord.action,
                             ticker |-> ord.ticker, side |-> ord.side,
                             type |-> "market", count |-> ord.count,
                             price |-> ord.price, entry |-> ord.market_entry])
    /\ \E result \in PostResults :
         IF result.raised
         THEN /\ state' = Logged(state, "ERROR", "failed", "ConnectionError")
              /\ nextId' = nextId + 1
              /\ ord' = [ord EXCEPT !.pc = AfterFailedPost, !.result = result,
                                    !.log_id = nextId,
                                    !.response = [code |-> 500,
                                                  error |-> "ConnectionError"]]
              /\ loop' = LoopAfter(AfterFailedPost)
         ELSE /\ ord' = [ord EXCEPT !.pc = "l142", !.result = result]
              /\ loop' = LoopAfter("l142")
              /\ UNCHANGED <<state, nextId>>
    /\ UNCHANGED <<writer, cycle, rcycle, pm, cxl, stq, deleted,
                   nOrders, nCancels, nStatus, po, inp, am>>

\* Lines 142-168 / 230-251, or the handler of line 170 / 253
api_order_classify ==
    /\ ord.pc = "l142"
    /\ OrderMayRun
    /\ LET c == Classify(ord.action, ord.result)
       IN  IF c.raised
           THEN /\ state' = Logged(state, "ERROR", "failed", c.error)
                /\ ord' = [ord EXCEPT !.pc = "done", !.log_id = nextId,
                                      !.response = [code |-> 500, error |-> c.error]]
           ELSE /\ state' = Logged(state, "TRADE_RESULT", c.text, c.error)
                /\ ord' = [ord EXCEPT !.pc = "done", !.log_id = nextId,
                                      !.response = [code |-> 200, error |-> ""]]
    /\ nextId' = nextId + 1
    /\ loop' = LoopAfter("done")
    /\ UNCHANGED <<writer, cycle, rcycle, pm, cxl, stq, sent, deleted,
                   nOrders, nCancels, nStatus, po, inp, am>>

----------------------------------------------------------------------------
(* api_cancel_order: server.py lines 261-280, on a worker thread *)

OrderIds == {"o1", "o2"}

\* GET /portfolio/orders/{id}: raises, or an order with a status, or a body
\* without "order" (status "None")
OrderLookups == {"error", "resting", "executed", "canceled", "None"}

NotCancelable_OnlyCanceled(status) == status \in {"canceled", "None"}

\* Line 266
NotCancelable(status) == status # "resting"

api_cancel_begin ==
    /\ cxl.pc \in {"idle", "done"}
    /\ nCancels < MaxCancels
    /\ nCancels' = nCancels + 1
    /\ \E id \in OrderIds : cxl' = [InitCxl EXCEPT !.pc = "l264", !.req = nCancels + 1,
                                                !.order_id = id]
    /\ UNCHANGED <<state, writer, cycle, rcycle, loop, pm, ord, stq, sent, deleted,
                   nextId, nOrders, nStatus, po, inp, am>>

\* Lines 264-267, and the handler of line 278 when the GET or the check raises
api_cancel_get ==
    /\ cxl.pc = "l264"
    /\ \E lk \in OrderLookups :
         IF lk = "error"
         THEN /\ state' = Logged(state, "ERROR", "Cancel failed", "HTTPError")
              /\ nextId' = nextId + 1
              /\ cxl' = [cxl EXCEPT !.pc = "done", !.status = "unknown",
                                    !.response = [code |-> 500, error |-> "HTTPError"]]
         ELSE IF NotCancelable(lk)
         THEN /\ state' = Logged(state, "ERROR", "Cancel failed", "not cancelable")
              /\ nextId' = nextId + 1
              /\ cxl' = [cxl EXCEPT !.pc = "done", !.status = lk,
                                    !.response = [code |-> 500,
                                                  error |-> "not cancelable"]]
         ELSE /\ cxl' = [cxl EXCEPT !.pc = "l269", !.status = lk]
              /\ UNCHANGED <<state, nextId>>
    /\ UNCHANGED <<writer, cycle, rcycle, loop, pm, ord, stq, sent, deleted,
                   nOrders, nCancels, nStatus, po, inp, am>>

\* Lines 269-277: the DELETE and the ORDER_CANCEL entry, or the handler of
\* line 278 when the DELETE raises
api_cancel_delete ==
    /\ cxl.pc = "l269"
    /\ deleted' = Append(deleted, [req |-> cxl.req, order_id |-> cxl.order_id,
                                   observed |-> cxl.status])
    /\ \E ok \in BOOLEAN :
         IF ok
         THEN /\ state' = Logged(state, "ORDER_CANCEL", "Cancelled order", "")
              /\ cxl' = [cxl EXCEPT !.pc = "done",
                                    !.response = [code |-> 200, error |-> ""]]
         ELSE /\ state' = Logged(state, "ERROR", "Cancel failed", "HTTPError")
              /\ cxl' = [cxl EXCEPT !.pc = "done",
                                    !.response = [code |-> 500, error |-> "HTTPError"]]
    /\ nextId' = nextId + 1
    /\ UNCHANGED <<writer, cycle, rcycle, loop, pm, ord, stq, sent,
                   nOrders, nCancels, nStatus, po, inp, am>>

----------------------------------------------------------------------------
(* poll_resting_orders: server.py lines 62-72; get_queue_positions:         *)
(* kalshi_positions.py lines 368-399.  The cycle has no await between its   *)
(* wake-up and its one access to the cache, so it is one step.              *)

\* GET /portfolio/orders/queue_positions; an entry without order_id is skipped
QueueResponses ==
    { [kind |-> "error", queue_positions |-> <<>>],
      [kind |-> "null", queue_positions |-> <<>>],
      [kind |-> "ok",
       queue_positions |-> << [order_id |-> "o1", queue_position |-> 4],
                              [order_id |-> "", queue_position |-> 0],
                              [order_id |-> "o2", queue_position |-> 1] >>] }

RECURSIVE RestingOf_SkipFailed(_, _)
RestingOf_SkipFailed(qs, lookup) ==
    IF qs = <<>> THEN [ok |-> TRUE, resting |-> <<>>]
    ELSE LET q == Head(qs)
             rest == RestingOf_SkipFailed(Tail(qs), lookup)
         IN  IF q.order_id # "" /\ lookup[q.order_id] = "resting"
             THEN [ok |-> TRUE,
                   resting |-> <<[order_id |-> q.order_id,
                                  queue_position |-> q.queue_position]>>
                               \o rest.resting]
             ELSE rest

\* lookup[id]: what GET /portfolio/orders/{id} gives during this cycle
RECURSIVE RestingOf(_, _)
RestingOf(qs, lookup) ==
    IF qs = <<>> THEN [ok |-> TRUE, resting |-> <<>>]
    ELSE LET q == Head(qs)
             rest == RestingOf(Tail(qs), lookup)
         IN  IF q.order_id = "" THEN rest
             ELSE IF lookup[q.order_id] = "error"
             THEN [ok |-> FALSE, resting |-> <<>>]
             ELSE IF ~rest.ok THEN rest
             ELSE IF lookup[q.order_id] = "resting"
             THEN [ok |-> TRUE,
                   resting |-> <<[order_id |-> q.order_id,
                                  queue_position |-> q.queue_position]>>
                               \o rest.resting]
             ELSE rest

get_queue_positions(qr, lookup) ==
    IF qr.kind = "error" THEN [ok |-> FALSE, resting |-> <<>>]
    ELSE IF qr.kind = "null" THEN [ok |-> TRUE, resting |-> <<>>]
    ELSE RestingOf(qr.queue_positions, lookup)

poll_resting_orders ==
    /\ loop = "idle"
    /\ LoopContinues(po.failed)
    /\ rcycle < MaxRestingCycles
    /\ rcycle' = rcycle + 1
    /\ \E qr \in QueueResponses,
          lookup \in [OrderIds -> {"error", "resting", "executed"}] :
         LET r == get_queue_positions(qr, lookup)
             raised == \E i \in DOMAIN qr.queue_positions :
                           /\ qr.queue_positions[i].order_id # ""
                           /\ lookup[qr.queue_positions[i].order_id] = "error"
         IN  IF r.ok
             THEN /\ state' = [state EXCEPT !.resting_orders = List(r.resting)]
                  /\ po' = [failed |-> FALSE, lookup_failed |-> raised]
                  /\ UNCHANGED nextId
             ELSE /\ state' = Logged(state, "ERROR",
                                     "Resting order polling failed", "HTTPError")
                  /\ po' = [failed |-> TRUE, lookup_failed |-> raised]
                  /\ nextId' = nextId + 1
    /\ UNCHANGED <<writer, cycle, loop, pm, ord, cxl, stq, sent, deleted,
                   nOrders, nCancels, nStatus, inp, am>>

----------------------------------------------------------------------------

PollMarkets ==
    \/ poll_markets_fetch
    \/ poll_markets_store_markets
    \/ poll_markets_store_positions
    \/ poll_markets_store_last_pull
    \/ poll_markets_store_user_info

Status ==
    \/ api_status_begin
    \/ api_status_read_markets
    \/ api_status_read_positions
    \/ api_status_read_messages
    \/ api_status_read_last_pull
    \/ api_status_read_user_info

Orders ==
    \/ api_order_parse
    \/ api_order_read
    \/ api_order_lookup
    \/ api_order_price
    \/ api_order_post
    \/ api_order_classify

Cancel ==
    \/ api_cancel_begin
    \/ api_cancel_get
    \/ api_cancel_delete

\* The whole program
Next == PollMarkets \/ poll_resting_orders \/ Status \/ Orders \/ Cancel

Spec == Init /\ [][Next]_vars

\* The quotes+positions poller with status requests
SpecCache == Init /\ [][PollMarkets \/ Status]_vars

\* The quotes+positions poller with buy and sell requests
SpecOrders == Init /\ [][PollMarkets \/ Orders]_vars

\* The resting-order poller with cancel requests
SpecCancel == Init /\ [][poll_resting_orders \/ Cancel]_vars

----------------------------------------------------------------------------
(* The event log under the order handlers' appends, started after one      *)
(* successful poll_markets cycle followed by n failed ones (each appended   *)
(* one ERROR entry).                                                        *)

\* messages after the failed cycles lo..hi have each appended their entry.
\* (Len(messages) comes first so that TLC computes the log of the earlier
\* cycles before it applies the later ones: its evaluation stack stays
\* shallow.)
RECURSIVE AfterFailures(_, _, _)
AfterFailures(messages, lo, hi) ==
    IF Len(messages) >= 0 /\ lo > hi THEN messages
    ELSE IF lo = hi
    THEN add_message(messages, Entry(lo, "ERROR", "Polling failed", "HTTPError"))
    ELSE AfterFailures(AfterFailures(messages, lo, (lo + hi) \div 2),
                       (lo + hi) \div 2 + 1, hi)

FailedCycles(n) == AfterFailures(<<>>, 1, n)

StateAfterCycles(n) ==
    [InitState EXCEPT
        !.markets = sanitize_json(get_market_summary(OneActiveMarket)),
        !.positions = sanitize_json(compute_positions(<<>>, NoFrame).df),
        !.last_pull = [kind |-> "str", t |-> 1],
        !.user_info = [kind |-> "dict", balance |-> 5000],
        !.messages = FailedCycles(n)]

InitLog ==
    \E n \in {0, LogCap - 2, LogCap - 1, LogCap} :
        /\ state = StateAfterCycles(n)
        /\ writer = [markets |-> 1, positions |-> 1, last_pull |-> 1, user_info |-> 1]
        /\ cycle = n + 1
        /\ rcycle = 0
        /\ loop = "idle"
        /\ pm = [pc |-> "sleep",
                 df_markets |-> get_market_summary(OneActiveMarket),
                 df_positions |-> compute_positions(<<>>, NoFrame).df,
                 pre |-> IF n = 0 THEN Snapshot(InitState)
                         ELSE Snapshot(StateAfterCycles(n)),
                 failed |-> (n > 0)]
        /\ ord = InitOrd
        /\ cxl = InitCxl
        /\ stq = InitStq
        /\ sent = <<>>
        /\ deleted = <<>>
        /\ nextId = n + 1
        /\ nOrders = 0
        /\ nCancels = 0
        /\ nStatus = 0
        /\ po = InitPo
        /\ inp = NoInput
        /\ am = InitAm

SpecLog == InitLog /\ [][Orders]_vars

----------------------------------------------------------------------------
(* The table-building half of a poll_markets cycle (lines 49-53) on given   *)
(* exchange answers: every price of the cent grid, every mix of market      *)
(* statuses, ledgers with long, short, flat and unquoted positions.         *)

Cents == 0..CentsPerDollar

\* An ask two cents above the bid c, and the NO side quoted as the
\* complement of the YES side
AskAbove(c) == IF c + 2 > CentsPerDollar THEN CentsPerDollar ELSE c + 2

TwoMarkets(c, sa, sb) ==
    << RawMarket("KXA", sa, c, AskAbove(c),
                 CentsPerDollar - AskAbove(c), CentsPerDollar - c),
       RawMarket("KXB", sb, CentsPerDollar - AskAbove(c), CentsPerDollar - c,
                 c, AskAbove(c)) >>

Listings ==
    { <<>> } \cup
    { TwoMarkets(c, sa, sb) : c \in Cents, sa \in {"active", "closed"},
                              sb \in {"active", "settled"} }

Ledgers ==
    { <<>>,
      << RawPosition("KXA", 10, 6000000, 120000, 0),
         RawPosition("KXB", -3, 1200000, 30000, 250000),
         RawPosition("KXC", 0, 0, 10000, -400000) >>,
      << RawPosition("KXA", 0, 1000000, 20000, 150000),
         RawPosition("KXC", 5, 2500000, 40000, 0),
         RawPosition("KXB", 7, 3150000, 0, 0) >> }

TableInputs ==
    { [NoInput EXCEPT !.markets = [kind |-> "ok", markets |-> l],
                      !.positions = [kind |-> "ok", market_positions |-> g]] :
        l \in Listings, g \in Ledgers }

InitTables == \E given \in TableInputs : InitWith(given)

SpecTables ==
    InitTables /\ [][\/ poll_markets_fetch_given
                     \/ poll_markets_store_markets
                     \/ poll_markets_store_positions
                     \/ poll_markets_store_last_pull
                     \/ poll_markets_store_user_info]_vars

----------------------------------------------------------------------------
(* kalshi_fee applied to a price of the cent grid and to its complement *)

InitFee == \E c \in Cents : InitWith([NoInput EXCEPT !.price = c])

kalshi_fee_apply ==
    /\ inp.fee = NoFee
    /\ inp' = [inp EXCEPT !.fee = kalshi_fee_double(inp.price),
                          !.fee_complement =
                              kalshi_fee_double(CentsPerDollar - inp.price)]
    /\ UNCHANGED <<state, writer, cycle, rcycle, loop, pm, ord, cxl, stq, sent,
                   deleted, nextId, nOrders, nCancels, nStatus, po, am>>

SpecFee == InitFee /\ [][kalshi_fee_apply]_vars

----------------------------------------------------------------------------
(* add_message (server.py lines 35-43) step by step, called from the        *)
(* worker thread of api_cancel_order (lines 270, 279) and from the event    *)
(* loop (lines 58, 70 and the order handlers).  The interpreter may switch  *)
(* threads between any two of these steps:                                  *)
(*   load    state["messages"] is evaluated: a reference to a list object;  *)
(*           then the entry is built (uuid4(), utcnow())                    *)
(*   insert  .insert(0, entry) on the list object referred to               *)
(*   slice   state["messages"][:100] is evaluated: a new list object        *)
(*   store   state["messages"] = that new list object                       *)
(* state.messages is kept equal to the contents of the list object that     *)
(* state["messages"] refers to.                                             *)

\* The cancel handler makes one call per request, a polling loop one per
\* failed cycle
MaxCalls(t) == IF t = "cancel" THEN MaxCancels ELSE MaxCycles

CallText(t) == IF t = "cancel" THEN "Cancel failed" ELSE "Polling failed"

add_message_load(t) ==
    /\ am.calls[t].pc = "idle"
    /\ am.made[t] < MaxCalls(t)
    /\ am' = [am EXCEPT !.calls[t] = [pc |-> "insert", ref |-> am.cur,
                                      entry |-> Entry(nextId, "ERROR", CallText(t),
                                                      "HTTPError"),
                                      sliced |-> <<>>],
                        !.made[t] = @ + 1]
    /\ nextId' = nextId + 1
    /\ UNCHANGED <<state, writer, cycle, rcycle, loop, pm, ord, cxl, stq, sent,
                   deleted, nOrders, nCancels, nStatus, po, inp>>

add_message_insert(t) ==
    /\ am.calls[t].pc = "insert"
    /\ LET ref == am.calls[t].ref
           lists == [am.lists EXCEPT ![ref] = <<am.calls[t].entry>> \o @]
       IN  /\ am' = [am EXCEPT !.lists = lists, !.calls[t].pc = "slice"]
           /\ state' = [state EXCEPT !.messages = lists[am.cur]]
    /\ UNCHANGED <<writer, cycle, rcycle, loop, pm, ord, cxl, stq, sent, deleted,
                   nextId, nOrders, nCancels, nStatus, po, inp>>

add_message_slice(t) ==
    /\ am.calls[t].pc = "slice"
    /\ am' = [am EXCEPT !.calls[t].pc = "store",
                        !.calls[t].sliced = Take(am.lists[am.cur], LogCap)]
    /\ UNCHANGED <<state, writer, cycle, rcycle, loop, pm, ord, cxl, stq, sent,
                   deleted, nextId, nOrders, nCancels, nStatus, po, inp>>

add_message_store(t) ==
    /\ am.calls[t].pc = "store"
    /\ am' = [am EXCEPT !.lists = Append(@, am.calls[t].sliced),
                        !.cur = Len(am.lists) + 1,
                        !.calls[t].pc = "idle"]
    /\ state' = [state EXCEPT !.messages = am.calls[t].sliced]
    /\ UNCHANGED <<writer, cycle, rcycle, loop, pm, ord, cxl, stq, sent, deleted,
                   nextId, nOrders, nCancels, nStatus, po, inp>>

AddMessage(t) ==
    \/ add_message_load(t)
    \/ add_message_insert(t)
    \/ add_message_slice(t)
    \/ add_message_store(t)

SpecAppend == Init /\ [][\E t \in Callers : AddMessage(t)]_vars

----------------------------------------------------------------------------
(* The two polling loops alone, scheduled fairly: once its sleep is over a  *)
(* loop's next cycle is run as soon as the event loop is free.              *)

PollResting == poll_resting_orders

SpecLoops ==
    /\ Init
    /\ [][PollMarkets \/ PollResting]_vars
    /\ WF_vars(PollMarkets)
    /\ WF_vars(PollResting)

----------------------------------------------------------------------------
(* Properties *)

Min(a, b) == IF a < b THEN a ELSE b

\* The log holds an entry with this id, category and error text
InLog(id, type_, error) ==
    \E i \in DOMAIN state.messages :
        /\ state.messages[i].id = id
        /\ state.messages[i].type = type_
        /\ state.messages[i].error = error

\* No market of this key in a cached quotes value
KeyAbsent(markets, ticker) ==
    \/ markets.kind # "list"
    \/ \A i \in DOMAIN markets.rows : markets.rows[i].market_ticker # ticker

Submitted(req) == \E i \in DOMAIN sent : sent[i].req = req

\* C1: a status response never pairs the quotes table written by a later
\* refresh cycle with positions, a last-refresh timestamp or a balance
\* written by an earlier one.
C1_StatusNeverMixesSnapshots ==
    stq.pc = "done" =>
        \A k \in {"positions", "last_pull", "user_info"} :
            ~(stq.ver[k] >= 1 /\ stq.ver.markets > stq.ver[k])

\* C2: after a cycle in which any step failed, the cached quotes, positions,
\* last-refresh timestamp and balance equal their values before the cycle.
C2_FailedCycleKeepsSnapshot ==
    (pm.pc = "sleep" /\ pm.failed) => Snapshot(state) = pm.pre

\* C3: an order request whose market key is absent from the snapshot it
\* read (also when nothing is cached yet) stops at the lookup, ends with a
\* missing-quote error and an ERROR log entry, and submits nothing.
C3_MissingQuoteFails ==
    (ord.pc \in {"l102", "l110", "l140", "l142", "done"}
        /\ KeyAbsent(ord.markets, ord.ticker)) =>
        /\ ord.pc \in {"l102", "done"}
        /\ ~Submitted(ord.req)
        /\ ord.pc = "done" =>
            /\ ord.response.code = 500
            /\ ord.response.error \in {"No cached market data available yet.",
                                       "Market data not found in cache."}
            /\ InLog(ord.log_id, "ERROR", ord.response.error)

C3_Witness ==
    /\ ord.pc = "done"
    /\ Truthy(ord.markets)
    /\ KeyAbsent(ord.markets, ord.ticker)
    /\ ord.response.code = 500

\* C4: the price of every buy submission is the effective ask of the
\* requested side, rounded up to a whole cent.
C4_BuyPriceIsEffectiveAskRoundedUp ==
    \A i \in DOMAIN sent :
        sent[i].action = "buy" =>
            sent[i].price = CeilCents(IF sent[i].side = "yes"
                                      THEN sent[i].entry.yes_ask_effective
                                      ELSE sent[i].entry.no_ask_effective)

\* C5: the price of every sell submission is the effective bid of the
\* requested side, rounded down to a whole cent.
C5_SellPriceIsEffectiveBidRoundedDown ==
    \A i \in DOMAIN sent :
        sent[i].action = "sell" =>
            sent[i].price = FloorCents(IF sent[i].side = "yes"
                                       THEN sent[i].entry.yes_bid_effective
                                       ELSE sent[i].entry.no_bid_effective)

\* C6: every exchange response to a submission is logged as a TRADE_RESULT
\* classified executed, canceled or rejected; a response with an error and
\* no order object is logged as rejected with the exchange's error text.
C6_ResponseIsClassified ==
    (ord.pc = "done" /\ Submitted(ord.req) /\ ~ord.result.raised) =>
        \E i \in DOMAIN state.messages :
            LET e == state.messages[i]
            IN  /\ e.id = ord.log_id
                /\ e.type = "TRADE_RESULT"
                /\ e.text \in {"Executed", "Executed TAKER", "Executed MAKER",
                               "Failed to place"}
                /\ (ord.result.has_error /\ ~ord.result.has_order) =>
                       (e.text = "Failed to place" /\ e.error = ord.result.error)

\* C7: a cancel request that observed a status other than resting ends with
\* the not-cancelable error and sends no DELETE; every DELETE was sent after
\* the status resting was observed.
C7_CancelOnlyResting ==
    /\ \A i \in DOMAIN deleted : deleted[i].observed = "resting"
    /\ (cxl.pc = "done" /\ cxl.status \notin {"resting", "unknown"}) =>
        /\ cxl.response = [code |-> 500, error |-> "not cancelable"]
        /\ \A i \in DOMAIN deleted : deleted[i].req # cxl.req

C7_Witness ==
    /\ cxl.pc = "done"
    /\ cxl.status = "executed"
    /\ cxl.response.code = 500
    /\ deleted = <<>>

\* C8: a request whose side or quantity cannot be parsed ends as a rejected
\* result with a log entry and no submission, never as an unhandled fault.
C8_UnparseableIsRejected ==
    ((ord.side = "NULL" \/ ~ParseInt(ord.quantity).ok)
        /\ ord.pc # "idle") =>
        /\ ord.pc = "done"
        /\ ord.response.code = 500
        /\ InLog(ord.log_id, "ERROR", ord.response.error)
        /\ ~Submitted(ord.req)

\* The log is the min(n, 100) most recently appended entries, newest first
\* (the n-th entry appended has id n)
LogIsRecent ==
    /\ Len(state.messages) = Min(nextId - 1, LogCap)
    /\ \A i \in DOMAIN state.messages : state.messages[i].id = nextId - i

\* An append moves every kept entry down one place, unchanged
LogShifts ==
    state.messages' # state.messages =>
        /\ Len(state.messages') <= Len(state.messages) + 1
        /\ \A i \in 2..Len(state.messages') :
               state.messages'[i] = state.messages[i - 1]

\* C9: the log never holds more than 100 entries, it is the min(n, 100) most
\* recently appended ones, newest first, and an append evicts only the
\* oldest entry and changes or reorders none.
C9_LogIsBoundedRecentHistory == [](LogIsRecent) /\ [][LogShifts]_vars

C9_Witness ==
    /\ Len(state.messages) = LogCap
    /\ state.messages[LogCap].id > 1
    /\ nOrders > 0

\* C10: from its one read of the cache until after its submission, the
\* order handler's list is the cached one (no refresh replaces it), and
\* the submission's entry and price come from that list.
C10_OrderUsesOneSnapshot ==
    /\ ord.pc \in {"l102", "l110", "l140", "l142"} =>
           (state.markets = ord.markets /\ writer.markets = ord.snap)
    /\ \A i \in DOMAIN sent :
           (sent[i].req = ord.req /\ ord.pc \in {"l142", "done"}) =>
               /\ \E j \in DOMAIN ord.markets.rows :
                      /\ ord.markets.rows[j] = sent[i].entry
                      /\ ord.markets.rows[j].market_ticker = ord.ticker
               /\ sent[i].price = OrderPrice(ord.action, ord.side, sent[i].entry)

C10_Witness ==
    /\ ord.pc = "l142"
    /\ Submitted(ord.req)
    /\ ord.snap >= 1
    /\ pm.pc = "sleep"
    /\ cycle < MaxCycles

\* A log entry with this text exists
LogHas(text) == \E i \in DOMAIN state.messages : state.messages[i].text = text

\* C11: whatever its cycles and those of the other loop did, each polling
\* loop goes on to start its next cycle: in every behaviour both loops start
\* every cycle up to the bound of the model (cycles are numbered one by one,
\* so each cycle, failed or not, is followed by the next).
C11_LoopsRunForever ==
    /\ <>(cycle = MaxCycles)
    /\ <>(rcycle = MaxRestingCycles)

C11_Witness ==
    /\ cycle = MaxCycles
    /\ pm.pc = "l52"
    /\ LogHas("Polling failed")
    /\ rcycle = MaxRestingCycles
    /\ ~po.failed
    /\ LogHas("Resting order polling failed")

\* The step ends a poll_markets cycle / a poll_resting_orders cycle
CycleEnds == pm'.pc = "sleep" /\ (cycle' # cycle \/ pm.pc = "l55")
RestingEnds == rcycle' # rcycle

\* The step appends exactly one entry, of category ERROR
AppendsOneError ==
    /\ state'.messages # <<>>
    /\ Head(state'.messages).type = "ERROR"
    /\ Head(state'.messages).id = nextId
    /\ Tail(state'.messages) = Take(state.messages, LogCap - 1)
    /\ nextId' = nextId + 1

\* C12: the step that ends a failed cycle of either polling loop appends
\* exactly one ERROR entry, and no other step of a polling loop (so no step
\* of a cycle that succeeds) appends anything.
C12_OneErrorPerFailedCycle ==
    [][IF (CycleEnds /\ pm'.failed) \/ (RestingEnds /\ po'.failed)
       THEN AppendsOneError
       ELSE state'.messages = state.messages /\ nextId' = nextId]_vars

C12_Witness ==
    /\ cycle = 2
    /\ pm.pc = "sleep"
    /\ ~pm.failed
    /\ rcycle = 0
    /\ Len(state.messages) = 1
    /\ state.messages[1].text = "Polling failed"

----------------------------------------------------------------------------
(* Properties of the tables built from given exchange answers *)

GivenListing == inp.markets.markets
GivenLedger == inp.positions.market_positions

\* The given listing has no active market of this key
Unquoted(t) ==
    \A i \in DOMAIN GivenListing :
        ~(GivenListing[i].ticker = t /\ GivenListing[i].status = "active")

\* The cycle under way, or just ended, failed while building its tables
TablesFailed == pm.pc = "sleep" /\ pm.failed /\ writer.positions # cycle

\* C13: no cycle fails while building its tables from a well-formed listing
\* and ledger, and the valued positions it caches have one row per ledger
\* position, in order, with liquidation value 0 where the position's market
\* has no quote.
C13_LeftJoinKeepsEveryPosition ==
    cycle >= 1 =>
        /\ ~TablesFailed
        /\ writer.positions = cycle =>
            /\ Len(state.positions.rows) = Len(GivenLedger)
            /\ \A i \in DOMAIN GivenLedger :
                   /\ state.positions.rows[i].ticker = GivenLedger[i].ticker
                   /\ Unquoted(GivenLedger[i].ticker) =>
                          state.positions.rows[i].liquidation_value = 0

\* C14: every row of the valued positions whose count is 0 has average
\* cost 0 and liquidation value 0.
C14_FlatPositionHasZeroCostAndValue ==
    \A i \in DOMAIN pm.df_positions.rows :
        LET row == pm.df_positions.rows[i]
        IN  row.net_yes_position = 0 =>
                (row.avg_share_price = 0 /\ row.liquidation_value = 0)

\* The quote the valuation joined to a position, None when there is none
QuoteOf(t) == FindRow(pm.df_markets.rows, t)

\* count times the effective bid of the side that closes the position
ExitValue(row) ==
    IF row.net_yes_position > 0
    THEN row.net_yes_position * QuoteOf(row.ticker).yes_bid_effective
    ELSE Abs(row.net_yes_position) * QuoteOf(row.ticker).no_bid_effective

Valued(row) == row.net_yes_position # 0 /\ QuoteOf(row.ticker) # None

\* C15 as stated: the liquidation value of a quoted non-zero position is
\* exactly count times the effective yes-bid (count > 0) or |count| times
\* the effective no-bid (count < 0).
C15_ValueIsCountTimesBid ==
    \A i \in DOMAIN pm.df_positions.rows :
        LET row == pm.df_positions.rows[i]
        IN  Valued(row) => row.liquidation_value = ExitValue(row)

\* C15 amended: the liquidation value of a quoted non-zero position is a
\* whole number of cents within half a cent of count times the effective
\* yes-bid (count > 0) or of |count| times the effective no-bid (count < 0).
C15_ValueIsCountTimesBidInCents ==
    \A i \in DOMAIN pm.df_positions.rows :
        LET row == pm.df_positions.rows[i]
        IN  Valued(row) =>
                /\ row.liquidation_value % 10000 = 0
                /\ Abs(row.liquidation_value - ExitValue(row)) <= 5000

C15_Witness ==
    \E i, j \in DOMAIN pm.df_positions.rows :
        LET long == pm.df_positions.rows[i]
            short == pm.df_positions.rows[j]
        IN  /\ long.net_yes_position > 0 /\ Valued(long)
            /\ long.liquidation_value # ExitValue(long)
            /\ short.net_yes_position < 0 /\ Valued(short)
            /\ QuoteOf(short.ticker).yes_bid_effective
                   # QuoteOf(short.ticker).no_bid_effective

IsActive(m) == m.status = "active"

\* C16: the quote table a cycle built has one row per active market of the
\* listing, in order and with its raw prices, and no other row; it is empty
\* when no market is active.
C16_TableCoversActiveMarkets ==
    cycle >= 1 =>
        LET active == SelectSeq(GivenListing, IsActive)
            rows == pm.df_markets.rows
        IN  /\ Len(rows) = Len(active)
            /\ \A i \in DOMAIN active :
                   /\ rows[i].market_ticker = active[i].ticker
                   /\ rows[i].yes_bid = active[i].yes_bid
                   /\ rows[i].yes_ask = active[i].yes_ask
                   /\ rows[i].no_bid = active[i].no_bid
                   /\ rows[i].no_ask = active[i].no_ask

C16_Witness ==
    /\ cycle >= 1
    /\ Len(GivenListing) = 2
    /\ ~IsActive(GivenListing[1])
    /\ IsActive(GivenListing[2])
    /\ Len(pm.df_markets.rows) = 1
    /\ pm.df_markets.rows[1].market_ticker = "KXB"

\* C19: in every row of a built quote table each effective ask is at least
\* the raw ask and each effective bid at most the raw bid, YES and NO.
C19_EffectivePricesAreWorse ==
    \A i \in DOMAIN pm.df_markets.rows :
        LET q == pm.df_markets.rows[i]
        IN  /\ q.yes_ask_effective >= 10000 * q.yes_ask
            /\ q.no_ask_effective >= 10000 * q.no_ask
            /\ q.yes_bid_effective <= 10000 * q.yes_bid
            /\ q.no_bid_effective <= 10000 * q.no_bid

C19_Witness ==
    \E i \in DOMAIN pm.df_markets.rows :
        LET q == pm.df_markets.rows[i]
        IN  /\ q.yes_bid = 50
            /\ q.yes_bid_effective < 10000 * q.yes_bid
            /\ q.no_ask_effective > 10000 * q.no_ask

----------------------------------------------------------------------------
(* Properties of the fee *)

FeeComputed == inp.fee # NoFee

----------------------------------------------------------------------------

\* C20: no status request ends in a fault, whatever the state of the cache.
C20_StatusAlwaysAnswers == stq.pc # "fault"

----------------------------------------------------------------------------

\* C21: once the add_message calls made so far have all returned, every
\* entry they appended is in the log (the log is far from its capacity).
C21_NoEntryLost ==
    (\A t \in Callers : am.calls[t].pc = "idle") =>
        \A id \in 1..(nextId - 1) :
            \E i \in DOMAIN state.messages : state.messages[i].id = id

\* C22: no buy or sell request has more than one submission to the exchange,
\* whatever the exchange answered and whatever failed after the submission.
C22_AtMostOneSubmission ==
    /\ \A i, j \in DOMAIN sent : sent[i].req = sent[j].req => i = j
    /\ Len(sent) <= nOrders

C22_Witness ==
    /\ ord.pc = "done"
    /\ Submitted(ord.req)
    /\ ord.response.code = 500
    /\ ord.result.has_error
    /\ Len(sent) = 1

\* The step belongs to a quotes+positions cycle
MarketsStep == cycle' # cycle \/ pm' # pm

\* C23: a resting-order cycle leaves quotes, positions, last-refresh
\* timestamp and balance unchanged; a quotes+positions cycle leaves the
\* cached resting-order list unchanged; a resting-order cycle in which a
\* per-order lookup failed leaves the cached resting-order list unchanged.
C23_CyclesWriteDisjointParts ==
    [][/\ RestingEnds => /\ Snapshot(state') = Snapshot(state)
                       /\ state'.balance = state.balance
       /\ MarketsStep => state'.resting_orders = state.resting_orders
       /\ (RestingEnds /\ po'.lookup_failed) =>
              state'.resting_orders = state.resting_orders]_vars

C23_Witness ==
    /\ rcycle = 2
    /\ po.lookup_failed
    /\ Truthy(state.resting_orders)
    /\ cycle >= 1
    /\ writer.markets >= 1

====
